---- MODULE Spec2Model ----
(***************************************************************************)
(* Model of paraatm.io.iff_to_trx.read_iff_file: the decoder of            *)
(* Integrated Flight Format (IFF) files.  One call of read_iff_file is a   *)
(* state machine: version detection, schema table, classification of the   *)
(* lines, selection of the record types, one chunked extraction per        *)
(* record type, assembly of the result.                                    *)
(*                                                                         *)
(* A file is a header line followed by body lines.  Of a line the model    *)
(* keeps what the decoder reads: the leading token (an integer code or     *)
(* not), the number of comma-separated fields, and the content of the      *)
(* eighth field (AcId in every schema that has it); of the header line,    *)
(* the third field (the version string).  Other cell values are not        *)
(* tracked.                                                                *)
(***************************************************************************)
EXTENDS Integers, Sequences, FiniteSets, TLC

\* ------------------------------------------------------------------ bounds
MaxLines == 3
MaxChunk == 2
MaxVerFields == 2
MaxVerDigits == 2

\* ------------------------------------------------------- sequence helpers
RECURSIVE SeqsUpTo(_, _)
SeqsUpTo(S, n) ==
    IF n = 0 THEN {<<>>}
    ELSE LET shorter == SeqsUpTo(S, n - 1)
         IN  shorter \cup {Append(s, x) : s \in {t \in shorter : Len(t) = n - 1}, x \in S}

Range(s) == {s[i] : i \in 1..Len(s)}

Contains(s, x) == \E i \in 1..Len(s) : s[i] = x

IsPrefix(s, t) == Len(s) <= Len(t) /\ SubSeq(t, 1, Len(s)) = s

\* 1-based position of the first occurrence of x in s, 0 when absent
IndexOf(s, x) ==
    IF Contains(s, x) THEN CHOOSE i \in 1..Len(s) : s[i] = x /\ \A j \in 1..(i - 1) : s[j] # x
    ELSE 0

\* ---------------------------------------------------------------- versions
\* A version string is a sequence of dot-separated fields, each a sequence
\* of decimal digits: "2.13" is << <<2>>, <<1,3>> >>.  The empty sequence
\* stands for a string that is not a dotted number.

RECURSIVE DigitsToNat(_)
DigitsToNat(ds) ==
    IF Len(ds) = 0 THEN 0
    ELSE 10 * DigitsToNat(SubSeq(ds, 1, Len(ds) - 1)) + ds[Len(ds)]

\* parse_version: the release tuple of numbers
parse_version(str) == [i \in 1..Len(str) |-> DigitsToNat(str[i])]

ReleaseAt(v, i) == IF i <= Len(v) THEN v[i] ELSE 0

\* field-wise numeric comparison of release tuples (missing fields are 0)
VersionGE_Numeric(v, w) ==
    LET n == IF Len(v) >= Len(w) THEN Len(v) ELSE Len(w)
    IN  \/ \A i \in 1..n : ReleaseAt(v, i) = ReleaseAt(w, i)
        \/ \E i \in 1..n : /\ ReleaseAt(v, i) > ReleaseAt(w, i)
                           /\ \A j \in 1..(i - 1) : ReleaseAt(v, j) = ReleaseAt(w, j)

\* the characters of the raw string, the dot written -1 (it sorts below the digits)
RECURSIVE Chars(_)
Chars(str) ==
    IF Len(str) = 0 THEN <<>>
    ELSE IF Len(str) = 1 THEN str[1]
    ELSE str[1] \o <<-1>> \o Chars(Tail(str))

\* lexicographic comparison of two character sequences
RECURSIVE LexGE(_, _)
LexGE(a, b) ==
    IF Len(b) = 0 THEN TRUE
    ELSE IF Len(a) = 0 THEN FALSE
    ELSE IF a[1] # b[1] THEN a[1] > b[1]
    ELSE LexGE(Tail(a), Tail(b))

\* variant: the gate comparison done on the raw strings, not on the parsed versions
VersionAtLeast_Text(str, gate) == LexGE(Chars(str), Chars(gate))

\* version >= parse_version(gate)
VersionAtLeast(str, gate) == VersionGE_Numeric(parse_version(str), parse_version(gate))

V_2_13 == << <<2>>, <<1, 3>> >>
V_2_15 == << <<2>>, <<1, 5>> >>

\* ----------------------------------------------------------------- schemas
BaseCols ==
    [rt \in 0..10 |->
       CASE rt = 0 -> <<"recType", "comment">>
         [] rt = 1 -> <<"recType", "fileType", "fileFormatVersion">>
         [] rt = 2 -> <<"recType", "recTime", "fltKey", "bcnCode", "cid", "Source", "msgType",
                        "AcId", "recTypeCat", "acType", "Orig", "Dest", "opsType", "estOrig",
                        "estDest">>
         [] rt = 3 -> <<"recType", "recTime", "fltKey", "bcnCode", "cid", "Source", "msgType",
                        "AcId", "recTypeCat", "coord1", "coord2", "alt", "significance",
                        "coord1Accur", "coord2Accur", "altAccur", "groundSpeed", "course",
                        "rateOfClimb", "altQualifier", "altIndicator", "trackPtStatus",
                        "leaderDir", "scratchPad", "msawInhibitInd", "assignedAltString",
                        "controllingFac", "controllingSeg", "receivingFac", "receivingSec",
                        "activeContr", "primaryContr", "kybrdSubset", "kybrdSymbol", "adsCode",
                        "opsType", "airportCode">>
         [] rt = 4 -> <<"recType", "recTime", "fltKey", "bcnCode", "cid", "Source", "msgType",
                        "AcId", "recTypeCat", "acType", "Orig", "Dest", "altcode", "alt",
                        "maxAlt", "assignedAltString", "requestedAltString", "route", "estTime",
                        "fltCat", "perfCat", "opsType", "equipList", "coordinationTime",
                        "coordinationTimeType", "leaderDir", "scratchPad1", "scratchPad2",
                        "fixPairScratchPad", "prefDepArrRoute", "prefDepRoute", "prefArrRoute">>
         [] rt = 5 -> <<"recType", "dataSource", "programName", "programVersion">>
         [] rt = 6 -> <<"recType", "recTime", "Source", "msgType", "rectypeCat",
                        "sectorizationString">>
         [] rt = 7 -> <<"recType", "recTime", "fltKey", "bcnCode", "cid", "Source", "msgType",
                        "AcId", "recTypeCat", "coord1", "coord2", "alt", "significance",
                        "coord1Accur", "coord2Accur", "altAccur", "msawtype", "msawTimeCat",
                        "msawLocCat", "msawMinSafeAlt", "msawIndex1", "msawIndex2", "msawVolID">>
         [] rt = 8 -> <<"recType", "recTime", "fltKey", "bcnCode", "cid", "Source", "msgType",
                        "AcId", "recTypeCat", "acType", "Orig", "Dest", "depTime", "depTimeType",
                        "arrTime", "arrTimeType">>
         [] rt = 9 -> <<"recType", "recTime", "fltKey", "bcnCode", "cid", "Source", "msgType",
                        "AcId", "recTypeCat", "coord1", "coord2", "alt", "pitchAngle",
                        "trueHeading", "rollAngle", "trueAirSpeed", "fltPhaseIndicator">>
         [] OTHER  -> <<"recType", "recTime", "fltKey", "bcnCode", "cid", "Source", "msgType",
                        "AcId", "recTypeCat", "configType", "configSpec">>]

Added_2_13 ==
    [rt \in 0..10 |->
       CASE rt = 2 -> <<"modeSCode">>
         [] rt = 3 -> <<"trackNumber", "tptReturnType", "modeSCode">>
         [] rt = 4 -> <<"coordinationPoint", "coordinationPointType", "trackNumber", "modeSCode">>
         [] OTHER  -> <<>>]

Added_2_15 ==
    [rt \in 0..10 |->
       IF rt = 3 THEN <<"sensorTrackNumberList", "spi", "dvs", "dupM3a", "tid">> ELSE <<>>]

\* the cols table after the two version gates; legacy is TRUE for a version
\* string that is not a dotted number, which orders below every release
ColsFor(str, legacy) ==
    LET ge13 == ~legacy /\ VersionAtLeast(str, V_2_13)
        ge15 == ~legacy /\ VersionAtLeast(str, V_2_15)
    IN  [rt \in 0..10 |->
           BaseCols[rt] \o (IF ge13 THEN Added_2_13[rt] ELSE <<>>)
                        \o (IF ge15 THEN Added_2_15[rt] ELSE <<>>)]

\* ------------------------------------------------------------ input files
NA == "<NA>"          \* the missing value
NoColumn == "-"       \* the cell of a column the schema does not have
Filler == "v"         \* the content of a field the model does not track

AcIdPos == 8          \* position of AcId in every base schema that has it

HeaderLine(isInt, rt, nf, f3) == [isInt |-> isInt, rt |-> rt, nf |-> nf, f3 |-> f3]
BodyLine(isInt, rt, nf, f8) == [isInt |-> isInt, rt |-> rt, nf |-> nf, f8 |-> f8]

HeaderSet ==
    { HeaderLine(TRUE, 1, 3, << <<2>>, <<9>> >>),
      HeaderLine(TRUE, 1, 3, << <<2>>, <<1, 5>> >>),
      HeaderLine(TRUE, 1, 3, <<>>),             \* third field is not a dotted number
      HeaderLine(TRUE, 0, 2, <<>>) }            \* a comment line: no third field

LineSet ==
    { BodyLine(TRUE, 3, 37, "A"),
      BodyLine(TRUE, 3, 40, "B"),
      BodyLine(TRUE, 3, 5, Filler),
      BodyLine(TRUE, 4, 36, "?"),
      BodyLine(TRUE, 11, 2, Filler),
      BodyLine(FALSE, 0, 1, Filler) }           \* leading token is not an integer

Scalar(c) == [kind |-> "scalar", types |-> <<c>>]
List(l) == [kind |-> "list", types |-> l]
All == [kind |-> "all", types |-> <<>>]

RequestSet == { Scalar(3), List(<<3>>), List(<<4, 3>>), All }

NoCallsigns == [kind |-> "none", names |-> <<>>]
OneCallsign(c) == [kind |-> "str", names |-> <<c>>]
CallsignList(l) == [kind |-> "list", names |-> l]

CallsignArgSet == { NoCallsigns, OneCallsign("A"), CallsignList(<<"A", "B">>),
                    CallsignList(<<"B", "C">>) }

\* the lines of a file, numbered from 0 as skiprows numbers them
NumLines(f) == 1 + Len(f.body)

LineAt(f, i) ==
    IF i = 0 THEN BodyLine(f.header.isInt, f.header.rt, f.header.nf, Filler)
    ELSE f.body[i]

\* ------------------------------------------------- pieces of read_iff_file
RECURSIVE SortedSeq(_)
SortedSeq(S) ==
    IF S = {} THEN <<>>
    ELSE LET m == CHOOSE x \in S : \A y \in S : x <= y
         IN  <<m>> \o SortedSeq(S \ {m})

\* np.unique: the distinct values in ascending order
Unique(lrt) == SortedSeq(Range(lrt))

\* variant: a one-element list is answered by one table too
ScalarResult_AlsoSingleton(req) ==
    req.kind = "scalar" \/ (req.kind = "list" /\ Len(req.types) = 1)

\* whether the request is answered by one table
ScalarResult(req) == req.kind = "scalar"

\* the record types to retrieve
RecordTypesOf(req, lrt) == IF req.kind = "all" THEN Unique(lrt) ELSE req.types

\* list(np.atleast_1d(callsigns))
AtLeast1d(arg) == arg.names

\* variant: the first line of the file is always skipped, as a header row would be
SkipRows_HeaderRow(lrt, rt) == {i \in 0..(Len(lrt) - 1) : lrt[i + 1] # rt \/ i = 0}

\* skiprows: the numbers of the lines of another record type
SkipRows(lrt, rt) == {i \in 0..(Len(lrt) - 1) : lrt[i + 1] # rt}

\* the numbers of the lines read_csv reads, in file order
RECURSIVE DataRowsFrom(_, _, _)
DataRowsFrom(i, n, skip) ==
    IF i >= n THEN <<>>
    ELSE (IF i \in skip THEN <<>> ELSE <<i>>) \o DataRowsFrom(i + 1, n, skip)

DataRows(n, skip) == DataRowsFrom(0, n, skip)

\* variant: a chunk starts on the last row of the chunk before it
NextChunk_Overlapping(rows, cursor, size) ==
    SubSeq(rows, IF cursor = 0 THEN 1 ELSE cursor,
           IF cursor + size <= Len(rows) THEN cursor + size ELSE Len(rows))

\* the next chunk: at most size of the rows not yet read
NextChunk(rows, cursor, size) ==
    SubSeq(rows, cursor + 1, IF cursor + size <= Len(rows) THEN cursor + size ELSE Len(rows))

\* a raw cell read with na_values='?'
ReadCell(raw) == IF raw = "?" THEN NA ELSE raw

\* one parsed row: the first Len(schema) fields of the line (usecols); fields
\* the line does not have are missing values
ParseRow(i, line, schema) ==
    LET pos == IndexOf(schema, "AcId")
    IN  [src     |-> i,
         AcId    |-> IF pos = 0 THEN NoColumn
                     ELSE IF pos > line.nf THEN NA
                     ELSE ReadCell(IF pos = AcIdPos THEN line.f8 ELSE Filler),
         missing |-> IF line.nf < Len(schema) THEN Len(schema) - line.nf ELSE 0]

ParseChunk(f, idxs, schema) == [k \in 1..Len(idxs) |-> ParseRow(idxs[k], LineAt(f, idxs[k]), schema)]

\* variant: a column the schema does not have is looked up without error
HasColumn_Always(schema, name) == TRUE

\* whether chunk[name] finds a column
HasColumn(schema, name) == Contains(schema, name)

\* variant: only the first callsign of the list is compared
IsIn_FirstOnly(v, cs) == Len(cs) > 0 /\ v = cs[1]

\* Series.isin
IsIn(v, cs) == Contains(cs, v)

\* variant: rows without a callsign pass the filter
RECURSIVE FilterChunk_KeepsMissing(_, _)
FilterChunk_KeepsMissing(chunk, cs) ==
    IF Len(chunk) = 0 THEN <<>>
    ELSE (IF IsIn(chunk[1].AcId, cs) \/ chunk[1].AcId = NA THEN <<chunk[1]>> ELSE <<>>)
         \o FilterChunk_KeepsMissing(Tail(chunk), cs)

\* chunk[chunk['AcId'].isin(callsigns)]
RECURSIVE FilterChunk(_, _)
FilterChunk(chunk, cs) ==
    IF Len(chunk) = 0 THEN <<>>
    ELSE (IF IsIn(chunk[1].AcId, cs) THEN <<chunk[1]>> ELSE <<>>) \o FilterChunk(Tail(chunk), cs)

\* with usecols the parser does not pad the lines to the number of names: a
\* line narrower than the schema is read with missing values when a line of
\* its chunk has the width of the schema, and a chunk none of whose lines has
\* it is rejected ("Too many columns specified")
RejectsChunk(f, idxs, schema) ==
    /\ Len(idxs) > 0
    /\ \A k \in 1..Len(idxs) : LineAt(f, idxs[k]).nf < Len(schema)

RenameMap(name) ==
    CASE name = "recTime"     -> "time"
      [] name = "AcId"        -> "callsign"
      [] name = "coord1"      -> "latitude"
      [] name = "coord2"      -> "longitude"
      [] name = "alt"         -> "altitude"
      [] name = "rateOfClimb" -> "rocd"
      [] name = "groundSpeed" -> "tas"
      [] name = "course"      -> "heading"
      [] OTHER                -> name

Rename(columns) == [k \in 1..Len(columns) |-> RenameMap(columns[k])]

NoResult == [kind |-> "none"]
TableResult(t) == [kind |-> "table", table |-> t]
MappingResult(m) == [kind |-> "mapping", map |-> m]

\* the value the call returns
ResultOf(scalar, rts, frames) ==
    IF scalar THEN TableResult(frames[rts[1]]) ELSE MappingResult(frames)

EmptyFrames == [rt \in {} |-> <<>>]

\* ------------------------------------------------------------------- state
VARIABLES
    file,               \* the file read: [header, body]
    request,            \* argument record_types
    callsignsArg,       \* argument callsigns
    chunksize,          \* argument chunksize
    pc,                 \* position of the call
    version,            \* [str, legacy] once detected
    cols,               \* record type -> column names
    line_record_types,  \* record type of each line
    passes,             \* number of classification passes over the file
    record_types,       \* the record types to retrieve
    scalar_result,
    callsigns,          \* [given, names]
    rtIdx,              \* position of the for loop in record_types
    stage,              \* "idle" between record types, "reading" inside read_csv
    skiprows,
    cursor,             \* rows of the current record type already read
    chunksRead,
    acc,                \* rows of the chunks concatenated so far
    data_frames,
    result

inputs == <<file, request, callsignsArg, chunksize>>
loopVars == <<rtIdx, stage, skiprows, cursor, chunksRead, acc>>
vars == <<file, request, callsignsArg, chunksize, pc, version, cols, line_record_types, passes,
          record_types, scalar_result, callsigns, rtIdx, stage, skiprows, cursor, chunksRead,
          acc, data_frames, result>>

FileSet == {[header |-> h, body |-> b] : h \in HeaderSet, b \in SeqsUpTo(LineSet, MaxLines)}

\* the state at the entry of a call whose arguments are drawn from the given sets
InitOver(files, requests, callsignArgs, chunksizes) ==
    /\ file \in files
    /\ request \in requests
    /\ callsignsArg \in callsignArgs
    /\ chunksize \in chunksizes
    /\ pc = "init"
    /\ version = [str |-> <<>>, legacy |-> FALSE]
    /\ cols = EmptyFrames
    /\ line_record_types = <<>>
    /\ passes = 0
    /\ record_types = <<>>
    /\ scalar_result = FALSE
    /\ callsigns = [given |-> FALSE, names |-> <<>>]
    /\ rtIdx = 1
    /\ stage = "idle"
    /\ skiprows = {}
    /\ cursor = 0
    /\ chunksRead = 0
    /\ acc = <<>>
    /\ data_frames = EmptyFrames
    /\ result = NoResult

Init == InitOver(FileSet, RequestSet, CallsignArgSet, 1..MaxChunk)

\* variant: a failing call hands back the tables built so far
Raise_ReturnsPartial ==
    /\ pc' = "failed"
    /\ result' = MappingResult(data_frames)

\* an exception leaves the call: nothing is returned
Raise ==
    /\ pc' = "failed"
    /\ result' = NoResult

\* with open(filename) as f: version = parse_version(f.readline().split(',')[2])
\* A first line with fewer than three fields raises.  Of a third field that
\* is not a dotted number parse_version either raises or makes a legacy
\* version, which orders below every release, depending on its release.
DetectVersion ==
    /\ pc = "init"
    /\ \/ /\ file.header.nf < 3
          /\ Raise
          /\ UNCHANGED version
       \/ /\ file.header.nf >= 3
          /\ file.header.f3 = <<>>
          /\ \/ Raise /\ UNCHANGED version
             \/ /\ version' = [str |-> <<>>, legacy |-> TRUE]
                /\ pc' = "version_detected"
                /\ UNCHANGED result
       \/ /\ file.header.nf >= 3
          /\ file.header.f3 # <<>>
          /\ version' = [str |-> file.header.f3, legacy |-> FALSE]
          /\ pc' = "version_detected"
          /\ UNCHANGED result
    /\ UNCHANGED <<inputs, cols, line_record_types, passes, record_types, scalar_result,
                   callsigns, loopVars, data_frames>>

\* cols = {...}; the two version gates
ResolveSchemas ==
    /\ pc = "version_detected"
    /\ cols' = ColsFor(version.str, version.legacy)
    /\ pc' = "schemas_resolved"
    /\ UNCHANGED <<inputs, version, line_record_types, passes, record_types, scalar_result,
                   callsigns, loopVars, data_frames, result>>

\* line_record_types = [int(line.split(',')[0]) for line in f]
Classify ==
    /\ pc = "schemas_resolved"
    /\ passes' = passes + 1
    /\ IF \A i \in 0..(NumLines(file) - 1) : LineAt(file, i).isInt
       THEN /\ line_record_types' = [k \in 1..NumLines(file) |-> LineAt(file, k - 1).rt]
            /\ pc' = "classified"
            /\ UNCHANGED result
       ELSE /\ Raise
            /\ UNCHANGED line_record_types
    /\ UNCHANGED <<inputs, version, cols, record_types, scalar_result, callsigns, loopVars,
                   data_frames>>

\* which record types to retrieve, scalar or dict result, callsigns as a list
SelectRecordTypes ==
    /\ pc = "classified"
    /\ record_types' = RecordTypesOf(request, line_record_types)
    /\ scalar_result' = ScalarResult(request)
    /\ callsigns' = IF callsignsArg.kind = "none" THEN [given |-> FALSE, names |-> <<>>]
                    ELSE [given |-> TRUE, names |-> AtLeast1d(callsignsArg)]
    /\ pc' = "extracting"
    /\ UNCHANGED <<inputs, version, cols, line_record_types, passes, loopVars, data_frames,
                   result>>

\* variant: the file is classified again at the top of each extraction
BeginExtract_Reclassifies ==
    /\ pc = "extracting"
    /\ stage = "idle"
    /\ rtIdx <= Len(record_types)
    /\ passes' = passes + 1
    /\ line_record_types' = [k \in 1..NumLines(file) |-> LineAt(file, k - 1).rt]
    /\ skiprows' = SkipRows(line_record_types', record_types[rtIdx])
    /\ IF record_types[rtIdx] \in DOMAIN cols
       THEN /\ stage' = "reading"
            /\ UNCHANGED <<pc, result>>
       ELSE /\ Raise
            /\ UNCHANGED stage
    /\ cursor' = 0
    /\ chunksRead' = 0
    /\ acc' = <<>>
    /\ UNCHANGED <<inputs, version, cols, record_types, scalar_result, callsigns, rtIdx,
                   data_frames>>

\* top of the loop body: skiprows, and the lookup cols[record_type]
BeginExtract ==
    /\ pc = "extracting"
    /\ stage = "idle"
    /\ rtIdx <= Len(record_types)
    /\ skiprows' = SkipRows(line_record_types, record_types[rtIdx])
    /\ IF record_types[rtIdx] \in DOMAIN cols
       THEN /\ stage' = "reading"
            /\ UNCHANGED <<pc, result>>
       ELSE /\ Raise
            /\ UNCHANGED stage
    /\ cursor' = 0
    /\ chunksRead' = 0
    /\ acc' = <<>>
    /\ UNCHANGED <<inputs, version, cols, line_record_types, passes, record_types,
                   scalar_result, callsigns, rtIdx, data_frames>>

\* one chunk of read_csv, filtered, handed to concat.  A file without a row
\* of the record type yields one empty chunk.
ReadChunk ==
    /\ pc = "extracting"
    /\ stage = "reading"
    /\ LET schema == cols[record_types[rtIdx]]
           rows   == DataRows(NumLines(file), skiprows)
           idxs   == NextChunk(rows, cursor, chunksize)
           chunk  == ParseChunk(file, idxs, schema)
       IN  /\ chunksRead = 0 \/ cursor < Len(rows)
           /\ \/ /\ RejectsChunk(file, idxs, schema)
                 /\ Raise
                 /\ UNCHANGED <<cursor, chunksRead, acc>>
              \/ /\ callsigns.given
                 /\ ~HasColumn(schema, "AcId")
                 /\ Raise
                 /\ UNCHANGED <<cursor, chunksRead, acc>>
              \/ /\ ~RejectsChunk(file, idxs, schema)
                 /\ callsigns.given => HasColumn(schema, "AcId")
                 /\ acc' = acc \o (IF callsigns.given THEN FilterChunk(chunk, callsigns.names)
                                   ELSE chunk)
                 /\ cursor' = cursor + Len(idxs)
                 /\ chunksRead' = chunksRead + 1
                 /\ UNCHANGED <<pc, result>>
    /\ UNCHANGED <<inputs, version, cols, line_record_types, passes, record_types,
                   scalar_result, callsigns, rtIdx, stage, skiprows, data_frames>>

\* end of the loop body: rename the columns, store the frame
FinishExtract ==
    /\ pc = "extracting"
    /\ stage = "reading"
    /\ chunksRead > 0
    /\ cursor >= Len(DataRows(NumLines(file), skiprows))
    /\ LET rt == record_types[rtIdx]
           df == [columns |-> Rename(cols[rt]), rows |-> acc]
       IN  data_frames' = [k \in DOMAIN data_frames \cup {rt} |->
                              IF k = rt THEN df ELSE data_frames[k]]
    /\ rtIdx' = rtIdx + 1
    /\ stage' = "idle"
    /\ UNCHANGED <<inputs, pc, version, cols, line_record_types, passes, record_types,
                   scalar_result, callsigns, skiprows, cursor, chunksRead, acc, result>>

\* result = data_frames[record_types[0]] or data_frames
Assemble ==
    /\ pc = "extracting"
    /\ stage = "idle"
    /\ rtIdx > Len(record_types)
    /\ result' = ResultOf(scalar_result, record_types, data_frames)
    /\ pc' = "done"
    /\ UNCHANGED <<inputs, version, cols, line_record_types, passes, record_types,
                   scalar_result, callsigns, loopVars, data_frames>>

Next ==
    \/ DetectVersion
    \/ ResolveSchemas
    \/ Classify
    \/ SelectRecordTypes
    \/ BeginExtract
    \/ ReadChunk
    \/ FinishExtract
    \/ Assemble

Spec == Init /\ [][Next]_vars

\* ---------------------------------------- the call over many version strings
Digits == {0, 1, 3, 5, 9}

VersionStrings ==
    LET fields == SeqsUpTo(Digits, MaxVerDigits) \ {<<>>}
        tails  == SeqsUpTo(fields, MaxVerFields - 1)
    IN  {<<m>> \o t : m \in {<<1>>, <<2>>, <<3>>}, t \in tails}

InitVersions ==
    InitOver({[header |-> HeaderLine(TRUE, 1, 3, v), body |-> <<>>] : v \in VersionStrings},
             {Scalar(3), All}, {NoCallsigns}, {1})

SpecVersions == InitVersions /\ [][Next]_vars

\* ------------------------------------------------------------------ claims
SchemasResolved == pc \in {"schemas_resolved", "classified", "extracting", "done"}

\* the declared version as numbers, read off the header line
DeclaredMajor == DigitsToNat(file.header.f3[1])
DeclaredMinor == IF Len(file.header.f3) >= 2 THEN DigitsToNat(file.header.f3[2]) ELSE 0
DeclaredAtLeast(major, minor) ==
    DeclaredMajor > major \/ (DeclaredMajor = major /\ DeclaredMinor >= minor)

LastN(s, n) == SubSeq(s, Len(s) - n + 1, Len(s))

FullCols == [rt \in 0..10 |-> BaseCols[rt] \o Added_2_13[rt] \o Added_2_15[rt]]

\* C5: the schema table is gated by the numeric order of the declared
\* version: from 2.13 on the schemas of record types 2, 3 and 4 carry the
\* appended fields with modeSCode, below 2.13 (2.9 included) they do not;
\* from 2.15 on the schema of record type 3 ends with the five fields
\* sensorTrackNumberList, spi, dvs, dupM3a, tid, below it does not; every
\* other schema is the base list; every schema extends the base list and is
\* a prefix of the schema of the highest version.
C5_VersionGatedSchemas ==
    (SchemasResolved /\ ~version.legacy) =>
        /\ \A rt \in {2, 3, 4} :
              IF DeclaredAtLeast(2, 13)
              THEN /\ Contains(cols[rt], "modeSCode")
                   /\ SubSeq(cols[rt], Len(BaseCols[rt]) + 1,
                             Len(BaseCols[rt]) + Len(Added_2_13[rt])) = Added_2_13[rt]
              ELSE ~Contains(cols[rt], "modeSCode")
        /\ IF DeclaredAtLeast(2, 15)
           THEN LastN(cols[3], 5) = <<"sensorTrackNumberList", "spi", "dvs", "dupM3a", "tid">>
           ELSE \A name \in {"sensorTrackNumberList", "spi", "dvs", "dupM3a", "tid"} :
                   ~Contains(cols[3], name)
        /\ \A rt \in (0..10) \ {2, 3, 4} : cols[rt] = BaseCols[rt]
        /\ \A rt \in 0..10 : IsPrefix(BaseCols[rt], cols[rt]) /\ IsPrefix(cols[rt], FullCols[rt])
        /\ DOMAIN cols = 0..10

\* a file declaring 2.9 has been given the base schemas, one declaring a
\* version between the gates the 2.13 fields only
C5_Witness ==
    /\ SchemasResolved
    /\ file.header.f3 = << <<2>>, <<9>> >>
    /\ cols[3] = BaseCols[3]

\* ------------------------------------------ the file, read declaratively
LineNumbers == 0..(NumLines(file) - 1)

ObservedTypes == {LineAt(file, i).rt : i \in LineNumbers}

LinesOfType(c) == {i \in LineNumbers : LineAt(file, i).rt = c}

\* the callsign a line carries in its AcId field, NA when it carries none
CallsignOfLine(i) ==
    LET l == LineAt(file, i)
    IN  IF l.nf < AcIdPos \/ l.f8 = "?" THEN NA ELSE l.f8

GivenCallsigns == Range(callsignsArg.names)

\* the line numbers a table for record type c is expected to hold
ExpectedLines(c) ==
    IF callsignsArg.kind = "none" THEN LinesOfType(c)
    ELSE {i \in LinesOfType(c) : CallsignOfLine(i) \in GivenCallsigns}

Srcs(rows) == [k \in 1..Len(rows) |-> rows[k].src]

StrictlyIncreasing(s) == \A j, k \in 1..Len(s) : j < k => s[j] < s[k]

\* rows holds exactly the lines of S, each once, in file order
HoldsExactly(rows, S) == Range(Srcs(rows)) = S /\ StrictlyIncreasing(Srcs(rows))

RequestedTypes == IF request.kind = "all" THEN ObservedTypes ELSE Range(request.types)

\* C1: a scalar record_types is answered by one table, a list (a
\* one-element list too) or 'all' by a mapping keyed by record type, and
\* the table returned for a scalar code is the table a mapping holds
\* under that code.
C1_ResultShape ==
    pc = "done" =>
        IF request.kind = "scalar"
        THEN /\ result.kind = "table"
             /\ result.table.columns = Rename(cols[request.types[1]])
             /\ HoldsExactly(result.table.rows, ExpectedLines(request.types[1]))
        ELSE /\ result.kind = "mapping"
             /\ DOMAIN result.map = RequestedTypes
             /\ \A c \in DOMAIN result.map :
                   /\ result.map[c].columns = Rename(cols[c])
                   /\ HoldsExactly(result.map[c].rows, ExpectedLines(c))

\* a one-element list has been answered by a mapping with one key
C1_Witness ==
    /\ pc = "done"
    /\ request = List(<<3>>)
    /\ result.kind = "mapping"
    /\ DOMAIN result.map = {3}
    /\ Len(result.map[3].rows) >= 2

RECURSIVE SumRows(_, _)
SumRows(m, keys) ==
    IF keys = {} THEN 0
    ELSE LET c == CHOOSE k \in keys : TRUE
         IN  Len(m[c].rows) + SumRows(m, keys \ {c})

\* C2: with record_types='all' and no callsign filter the keys of the
\* mapping are the distinct leading codes of the file, the table under a
\* code has as many rows as the file has lines with that code, and the
\* row counts add up to the number of lines.
C2_AllPartitionsLines ==
    (pc = "done" /\ request.kind = "all" /\ callsignsArg.kind = "none") =>
        /\ result.kind = "mapping"
        /\ DOMAIN result.map = ObservedTypes
        /\ \A c \in ObservedTypes : Len(result.map[c].rows) = Cardinality(LinesOfType(c))
        /\ SumRows(result.map, DOMAIN result.map) = NumLines(file)

\* a file with three record types, one of them on two lines, has been decoded
C2_Witness ==
    /\ pc = "done"
    /\ request.kind = "all"
    /\ callsignsArg.kind = "none"
    /\ Cardinality(DOMAIN result.map) = 3
    /\ \E c \in DOMAIN result.map : Len(result.map[c].rows) = 2

CountWithCallsign(c, x) == Cardinality({i \in LinesOfType(c) : CallsignOfLine(i) = x})

TablesReturned ==
    IF result.kind = "table" THEN {result.table}
    ELSE IF result.kind = "mapping" THEN {result.map[c] : c \in DOMAIN result.map}
    ELSE {}

\* C3: with a callsign set S the table of a record type holds exactly the
\* lines of that type whose AcId is in S (a single string is the set of
\* that string); for two distinct callsigns the row count is the sum of
\* the two single-callsign counts.
C3_CallsignFilter ==
    (pc = "done" /\ callsignsArg.kind # "none") =>
        \A c \in DOMAIN data_frames :
            /\ \A k \in 1..Len(data_frames[c].rows) :
                  /\ data_frames[c].rows[k].AcId \in GivenCallsigns
                  /\ data_frames[c].rows[k].AcId = CallsignOfLine(data_frames[c].rows[k].src)
            /\ \A i \in LinesOfType(c) :
                  CallsignOfLine(i) \in GivenCallsigns =>
                      \E k \in 1..Len(data_frames[c].rows) : data_frames[c].rows[k].src = i
            /\ callsignsArg.kind = "str" => GivenCallsigns = {callsignsArg.names[1]}
            /\ \A a, b \in GivenCallsigns :
                  (a # b /\ GivenCallsigns = {a, b}) =>
                      Len(data_frames[c].rows) = CountWithCallsign(c, a) + CountWithCallsign(c, b)

\* a table filtered by two callsigns holds rows of both and has left a row out
C3_Witness ==
    /\ pc = "done"
    /\ callsignsArg = CallsignList(<<"A", "B">>)
    /\ 3 \in DOMAIN data_frames
    /\ {r.AcId : r \in Range(data_frames[3].rows)} = {"A", "B"}
    /\ Len(data_frames[3].rows) < Cardinality(LinesOfType(3))

DistinctCallsigns(t) == {t.rows[k].AcId : k \in 1..Len(t.rows)}

\* C4 as stated: the number of distinct callsigns in a returned filtered
\* table equals the cardinality of the callsign set, for every file.
C4_DistinctEqualsCardinality ==
    (pc = "done" /\ callsignsArg.kind # "none") =>
        \A t \in TablesReturned : Cardinality(DistinctCallsigns(t)) = Cardinality(GivenCallsigns)

\* C4 amended: the distinct callsigns of the filtered table of a record
\* type are the members of the set that occur as AcId on a line of that
\* type; their number is at most the cardinality of the set and equals it
\* exactly when every member occurs.
C4_DistinctAreMembersPresent ==
    (pc = "done" /\ callsignsArg.kind # "none") =>
        \A c \in DOMAIN data_frames :
            LET present == {x \in GivenCallsigns : \E i \in LinesOfType(c) : CallsignOfLine(i) = x}
            IN  /\ DistinctCallsigns(data_frames[c]) = present
                /\ Cardinality(DistinctCallsigns(data_frames[c])) <= Cardinality(GivenCallsigns)
                /\ (Cardinality(DistinctCallsigns(data_frames[c])) = Cardinality(GivenCallsigns))
                      <=> (present = GivenCallsigns)

\* a table filtered by two callsigns of which only one flies in the file
C4_Witness ==
    /\ pc = "done"
    /\ callsignsArg = CallsignList(<<"B", "C">>)
    /\ result.kind = "table"
    /\ DistinctCallsigns(result.table) = {"B"}

\* the causes that make a stage of the call raise whatever the parser does
HeaderTooShort == file.header.nf < 3

SomeTokenNotInteger == \E i \in LineNumbers : ~LineAt(file, i).isInt

SomeTypeWithoutSchema == \E c \in RequestedTypes : c \notin 0..10

SomeFilteredTypeWithoutAcId ==
    /\ callsignsArg.kind # "none"
    /\ \E c \in RequestedTypes : c \in 0..10 /\ ~Contains(BaseCols[c], "AcId")

FailureCause ==
    HeaderTooShort \/ SomeTokenNotInteger \/ SomeTypeWithoutSchema \/ SomeFilteredTypeWithoutAcId

\* C6: the call is fail-fast: a failed call returns nothing, the tables
\* already built for earlier record types included; a call returns
\* something only when finished and only on a file and request with no
\* cause of failure; once failed the call stays failed (no stage runs again).
C6_FailFast ==
    /\ [](/\ pc = "failed" => result = NoResult
          /\ result # NoResult => (pc = "done" /\ ~FailureCause)
          /\ pc = "done" => result # NoResult)
    /\ [][pc = "failed" => (pc' = "failed" /\ result' = NoResult /\ data_frames' = data_frames
                            /\ passes' = passes /\ chunksRead' = chunksRead)]_vars

\* a multi-type call has failed after a table had been built
C6_Witness ==
    /\ pc = "failed"
    /\ result = NoResult
    /\ DOMAIN data_frames # {}
    /\ Len(record_types) >= 2

\* C7 as stated: a line of an extracted record type with fewer fields
\* than the schema makes the call fail, so no table is ever built for a
\* record type that has such a line; a line with extra trailing fields is
\* accepted and gives a row without missing trailing fields.
C7_ShortLineFailsTheCall ==
    \A c \in DOMAIN data_frames :
        /\ \A i \in LinesOfType(c) : LineAt(file, i).nf >= Len(cols[c])
        /\ \A i \in ExpectedLines(c) :
              LineAt(file, i).nf > Len(cols[c]) =>
                  \E k \in 1..Len(data_frames[c].rows) :
                      data_frames[c].rows[k].src = i /\ data_frames[c].rows[k].missing = 0

AllowedStep(a, b) ==
    \/ a = "init" /\ b = "version_detected"
    \/ a = "version_detected" /\ b = "schemas_resolved"
    \/ a = "schemas_resolved" /\ b = "classified"
    \/ a = "classified" /\ b = "extracting"
    \/ a = "extracting" /\ b \in {"extracting", "done"}
    \/ a \notin {"done", "failed"} /\ b = "failed"
    \/ a = b

\* C8: the stages run in the order version detection, schema table,
\* classification, extractions, assembly; the file is classified once per
\* call, before the first extraction, whatever the number of record
\* types; one extraction is run per requested record type; no extraction
\* changes the classification or the schema table.
C8_StageOrder ==
    /\ [](/\ passes <= 1
          /\ pc \in {"classified", "extracting", "done"} =>
                (passes = 1 /\ Len(line_record_types) = NumLines(file) /\ DOMAIN cols = 0..10)
          /\ pc \in {"init", "version_detected"} => (passes = 0 /\ DOMAIN data_frames = {})
          /\ pc = "init" => DOMAIN cols = {}
          /\ pc = "done" => (rtIdx = Len(record_types) + 1 /\ DOMAIN data_frames = Range(record_types)))
    /\ [][/\ AllowedStep(pc, pc')
          /\ pc \in {"extracting", "done", "failed"} =>
                (line_record_types' = line_record_types /\ cols' = cols /\ passes' = passes)
          /\ rtIdx' \in {rtIdx, rtIdx + 1}]_vars

\* two record types have been extracted after one classification pass
C8_Witness ==
    /\ pc = "done"
    /\ Len(record_types) >= 2
    /\ passes = 1
    /\ chunksRead >= 2

C10_FilterWithoutAcIdFails ==
    callsignsArg.kind # "none" =>
        /\ \A c \in DOMAIN data_frames : Contains(cols[c], "AcId")
        /\ (pc = "extracting" /\ stage = "reading" /\ ~Contains(cols[record_types[rtIdx]], "AcId"))
              => (acc = <<>> /\ chunksRead = 0)
        /\ (\E c \in RequestedTypes : c \in 0..10 /\ ~Contains(BaseCols[c], "AcId"))
              => (pc # "done" /\ result = NoResult)

\* an 'all' request with a callsign has failed in the extraction of the
\* header record type
C10_Witness ==
    /\ pc = "failed"
    /\ callsigns.given
    /\ request.kind = "all"
    /\ stage = "reading"
    /\ record_types[rtIdx] = 1
    /\ ~Contains(cols[1], "AcId")

====
